---- MODULE Spec2Model ----
(***************************************************************************)
(* Model of the CCoin inference layer (m1zr/ccoin, inference/src):         *)
(*   - TaskQueue          (gradient.py)  pending list, active task         *)
(*   - GradientComputer   (gradient.py)  compute / proof / verify          *)
(*   - compute_gradient_quality, hash_gradients (models.py)                *)
(* Floats are modelled as exact rationals plus the IEEE specials nan, inf  *)
(* and -inf, with Python's comparison, min and max semantics.              *)
(***************************************************************************)
EXTENDS Integers, Sequences, FiniteSets, TLC

(***************************************************************************)
(* Bounds of the model.                                                    *)
(***************************************************************************)
NumCallers == 2    \* concurrent claim requests
MaxPending == 2    \* length of the pending list
MaxTime == 1       \* last value of the clock

Callers == 1..NumCallers
TaskIds == {1, 2}
ModelIds == {1, 2, 3, 4}
Deadlines == {0, 1}

(***************************************************************************)
(* TrainingTask (the fields the modelled code reads).  NoTask is None.     *)
(***************************************************************************)
TrainingTask == [task_id : TaskIds, model_id : ModelIds, deadline : Deadlines]
NoTask == [task_id |-> 0, model_id |-> 0, deadline |-> 0]
\* the tasks offered to the queue; the queue reads task_id only
QueueTasks == {t \in TrainingTask : t.model_id = 1}
RaceTasks == {t \in QueueTasks : t.deadline = 1}
\* the tasks given to the computer
ComputeTasks == {t \in TrainingTask : t.deadline = 1 /\ (t.model_id - t.task_id) % 2 = 0}

(***************************************************************************)
(* Python floats: a finite value is the rational n/d in lowest terms       *)
(* (d > 0); nan, inf and -inf are the IEEE specials; None is Python's None.*)
(***************************************************************************)
RECURSIVE GCD(_, _)
GCD(a, b) == IF b = 0 THEN a ELSE GCD(b, a % b)

Abs(x) == IF x < 0 THEN -x ELSE x

Fin(n, d) ==
    LET g == GCD(Abs(n), d)
    IN  [k |-> "fin", n |-> n \div g, d |-> d \div g]

NaN == [k |-> "nan", n |-> 0, d |-> 1]
PInf == [k |-> "inf", n |-> 0, d |-> 1]
NInf == [k |-> "ninf", n |-> 0, d |-> 1]
None == [k |-> "none", n |-> 0, d |-> 1]

Sign(a) ==
    IF a.k = "inf" THEN 1
    ELSE IF a.k = "ninf" THEN -1
    ELSE IF a.n > 0 THEN 1 ELSE IF a.n < 0 THEN -1 ELSE 0

FNeg(a) ==
    IF a.k = "fin" THEN Fin(-a.n, a.d)
    ELSE IF a.k = "inf" THEN NInf
    ELSE IF a.k = "ninf" THEN PInf
    ELSE a

FAdd(a, b) ==
    IF a.k = "nan" \/ b.k = "nan" THEN NaN
    ELSE IF a.k = "fin" /\ b.k = "fin"
         THEN LET l == (a.d \div GCD(a.d, b.d)) * b.d
              IN  Fin(a.n * (l \div a.d) + b.n * (l \div b.d), l)
    ELSE IF a.k = "fin" THEN b
    ELSE IF b.k = "fin" THEN a
    ELSE IF a.k = b.k THEN a
    ELSE NaN

FSub(a, b) == FAdd(a, FNeg(b))

FMul(a, b) ==
    IF a.k = "nan" \/ b.k = "nan" THEN NaN
    ELSE IF a.k = "fin" /\ b.k = "fin" THEN Fin(a.n * b.n, a.d * b.d)
    ELSE IF Sign(a) = 0 \/ Sign(b) = 0 THEN NaN
    ELSE IF Sign(a) = Sign(b) THEN PInf ELSE NInf

\* a / b for b # 0 (every divisor of the modelled code is non-zero)
FDiv(a, b) ==
    IF a.k = "nan" \/ b.k = "nan" THEN NaN
    ELSE IF a.k = "fin" /\ b.k = "fin" THEN Fin(a.n * b.d * Sign(b), a.d * Abs(b.n))
    ELSE IF a.k # "fin" /\ b.k # "fin" THEN NaN
    ELSE IF a.k = "fin" THEN Fin(0, 1)
    ELSE IF Sign(a) = Sign(b) THEN PInf ELSE NInf

\* a < b; every comparison with nan is false
FLt(a, b) ==
    /\ a.k # "nan"
    /\ b.k # "nan"
    /\ IF a.k = "fin" /\ b.k = "fin" THEN a.n * b.d < b.n * a.d
       ELSE IF a.k = "ninf" THEN b.k # "ninf"
       ELSE b.k = "inf" /\ a.k # "inf"

FLe(a, b) == a.k # "nan" /\ b.k # "nan" /\ (a = b \/ FLt(a, b))

\* max with its arguments in the other order: max(b, a)
PyMaxSwapped(a, b) == IF FLt(b, a) THEN a ELSE b

\* Python's max(a, b) and min(a, b): the first argument unless the second beats it
PyMax(a, b) == IF FLt(a, b) THEN b ELSE a
PyMin(a, b) == IF FLt(b, a) THEN b ELSE a

\* largest r with r * r <= m
RECURSIVE ISqrtFrom(_, _)
ISqrtFrom(m, r) == IF (r + 1) * (r + 1) > m THEN r ELSE ISqrtFrom(m, r + 1)
RECURSIVE ISqrt(_)
ISqrt(m) == IF m < 4 THEN ISqrtFrom(m, 0) ELSE ISqrtFrom(m, 2 * ISqrt(m \div 4))

\* the square root rounds to the precision of the float; the model keeps SqrtBits
\* binary digits after the point
SqrtBits == 6
SqrtGrid == 2 ^ SqrtBits

\* a ** 0.5 and tensor.norm() for a >= 0
FSqrt(a) ==
    IF a.k # "fin" THEN a
    ELSE LET scaled == (a.n \div a.d) * SqrtGrid * SqrtGrid
                       + ((a.n % a.d) * SqrtGrid * SqrtGrid) \div a.d
         IN  Fin(ISqrt(scaled), SqrtGrid)

Zero == Fin(0, 1)
One == Fin(1, 1)
Half == Fin(1, 2)

(***************************************************************************)
(* Gradient maps: a Python dict, i.e. (name, tensor) entries in insertion  *)
(* order with distinct names.  A name is its byte string, a tensor the     *)
(* sequence of its elements.                                               *)
(***************************************************************************)
MaxParams == 2     \* parameters of a model

ParamNames == {<<i>> : i \in 1..MaxParams}
ElemValues == <<Fin(1, 16), One, Fin(16, 1), Fin(128, 1), NaN, PInf>>
Elems == {ElemValues[i] : i \in DOMAIN ElemValues}
Tensors == {<<e>> : e \in Elems}
GradEntries == [name : ParamNames, grad : Tensors]
GradientMaps ==
    UNION {{g \in [1..n -> GradEntries] :
                \A i, j \in 1..n : i # j => g[i].name # g[j].name}
           : n \in 0..MaxParams}

\* tensor.norm(): the L2 norm of the elements
RECURSIVE SumSquares(_)
SumSquares(t) ==
    IF t = <<>> THEN Zero
    ELSE FAdd(SumSquares(SubSeq(t, 1, Len(t) - 1)), FMul(t[Len(t)], t[Len(t)]))

TensorNorm(t) == FSqrt(SumSquares(t))

\* total_norm = 0.0; for grad in gradients.values(): total_norm += grad.norm().item() ** 2
RECURSIVE TotalNormSq(_)
TotalNormSq(g) ==
    IF g = <<>> THEN Zero
    ELSE FAdd(TotalNormSq(SubSeq(g, 1, Len(g) - 1)),
              FMul(TensorNorm(g[Len(g)].grad), TensorNorm(g[Len(g)].grad)))

\* the magnitude sub-score without the ramp below 0.1
MagnitudeScoreFlat(total_norm) ==
    IF FLe(total_norm, Fin(10, 1)) THEN One
    ELSE PyMax(Zero, FSub(One, FDiv(FSub(total_norm, Fin(10, 1)), Fin(100, 1))))

MagnitudeScore(total_norm) ==
    IF FLe(Fin(1, 10), total_norm) /\ FLe(total_norm, Fin(10, 1)) THEN One
    ELSE IF FLt(total_norm, Fin(1, 10)) THEN FDiv(total_norm, Fin(1, 10))
    ELSE PyMax(Zero, FSub(One, FDiv(FSub(total_norm, Fin(10, 1)), Fin(100, 1))))

ImprovementScore(loss, prev_loss) ==
    PyMin(One, PyMax(Zero, FAdd(FDiv(FSub(prev_loss, loss), prev_loss), Half)))

\* models.compute_gradient_quality
compute_gradient_quality(gradients, loss, prev_loss) ==
    LET total_norm == FSqrt(TotalNormSq(gradients))
        magnitude_score == MagnitudeScore(total_norm)
    IN  IF prev_loss # None /\ FLt(Zero, prev_loss)
        THEN FDiv(FAdd(FAdd(Zero, magnitude_score), ImprovementScore(loss, prev_loss)),
                  Fin(2, 1))
        ELSE FDiv(FAdd(Zero, magnitude_score), Fin(1, 1))

\* byte strings compared as Python compares str
RECURSIVE LexLt(_, _)
LexLt(a, b) ==
    IF a = <<>> THEN b # <<>>
    ELSE IF b = <<>> THEN FALSE
    ELSE IF a[1] # b[1] THEN a[1] < b[1]
    ELSE LexLt(Tail(a), Tail(b))

\* sorted(gradients.keys())
RECURSIVE SortNames(_)
SortNames(S) ==
    IF S = {} THEN <<>>
    ELSE LET m == CHOOSE x \in S : \A y \in S \ {x} : LexLt(x, y)
         IN  <<m>> \o SortNames(S \ {m})

Keys(g) == {g[i].name : i \in 1..Len(g)}
Lookup(g, name) == g[CHOOSE i \in 1..Len(g) : g[i].name = name].grad

\* tobytes() cut after the first element
TensorBytesHead(t) ==
    IF t = <<>> THEN <<>>
    ELSE <<CHOOSE i \in DOMAIN ElemValues : ElemValues[i] = t[1]>>

\* tensor.numpy().tobytes(): the elements in order, each in a fixed width (one byte here)
RECURSIVE TensorBytes(_)
TensorBytes(t) ==
    IF t = <<>> THEN <<>>
    ELSE <<CHOOSE i \in DOMAIN ElemValues : ElemValues[i] = t[1]>> \o TensorBytes(Tail(t))

\* what hash_gradients feeds to the hasher
RECURSIVE HashInput(_, _)
HashInput(g, names) ==
    IF names = <<>> THEN <<>>
    ELSE names[1] \o TensorBytes(Lookup(g, names[1])) \o HashInput(g, Tail(names))

\* hashlib.sha256: a digest stands for its preimage (no collisions); flip counts the
\* bytes of the digest that were altered afterwards
sha256(data) == [pre |-> data, flip |-> 0]

\* hash_gradients feeding the hasher in the order of gradients.items()
hash_gradients_unsorted(gradients) ==
    sha256(HashInput(gradients, [i \in 1..Len(gradients) |-> gradients[i].name]))

\* models.hash_gradients
hash_gradients(gradients) == sha256(HashInput(gradients, SortNames(Keys(gradients))))

\* gradient maps for calls of hash_gradients on its own: names of one and of two bytes,
\* tensors of one element and of two, the latter flat or as a 1 x 2 matrix
HashNames == {<<1>>, <<2>>, <<1, 2>>}
HashElems == {ElemValues[1], ElemValues[2]}
HashTensors ==
    {[grad |-> <<e>>, shape |-> <<1>>] : e \in HashElems}
    \cup {[grad |-> <<e, f>>, shape |-> sh] :
              e \in HashElems, f \in HashElems, sh \in {<<2>>, <<1, 2>>}}
HashEntries ==
    {[name |-> nm, grad |-> t.grad, shape |-> t.shape] : nm \in HashNames, t \in HashTensors}
HashMaps ==
    UNION {{g \in [1..n -> HashEntries] :
                \A i, j \in 1..n : i # j => g[i].name # g[j].name}
           : n \in 0..2}

(***************************************************************************)
(* ModelRegistry: the registered models and the task type of each.         *)
(***************************************************************************)
Registry == [m \in ModelIds |->
                IF m = 1 THEN "classification"
                ELSE IF m = 2 THEN "regression"
                ELSE IF m = 3 THEN "absent"
                ELSE "generation"]

\* ModelRegistry.load_model returns a model
load_model(model_id) == Registry[model_id] # "absent"

\* GradientComputer._get_criterion
_get_criterion(model_id) ==
    IF Registry[model_id] = "absent" THEN "CrossEntropyLoss"
    ELSE IF Registry[model_id] = "classification" THEN "CrossEntropyLoss"
    ELSE IF Registry[model_id] = "regression" THEN "MSELoss"
    ELSE "CrossEntropyLoss"

\* GradientComputer._compute_metrics; the statistics of the batch are the executor's
_compute_metrics(stat, model_id) ==
    LET task_type == IF Registry[model_id] # "absent" THEN Registry[model_id]
                     ELSE "classification"
    IN  IF task_type = "classification" THEN <<<<"accuracy", stat>>>>
        ELSE IF task_type = "regression" THEN <<<<"mse", stat>>, <<"mae", stat>>>>
        ELSE <<>>

VARIABLES
    pending_tasks,  \* TaskQueue.pending_tasks : list of TrainingTask
    active_task,    \* TaskQueue.active_task : TrainingTask or None
    now,            \* the wall clock, time.time() in whole seconds
    pc,             \* per caller: position of its /tasks/{id}/claim request
    arg,            \* per caller: the task_id of its claim request
    ret,            \* per caller: what TaskQueue.claim_task returned to it
    arm,            \* per caller: its request observes a race on one pending task
    submitted,      \* history: task_ids for which submit_result returned True
    last,           \* the last TaskQueue call: operation, argument, result, pre-state
    prev_loss,      \* GradientComputer.prev_loss : float or None
    current_task,   \* GradientComputer.current_task : TrainingTask or None
    computed,       \* the last compute_gradients call: its ComputeResult or its error
    verified,       \* verify_result, when it was the last call: arguments, regenerated
                    \* proof, result
    qin,            \* arguments of a direct compute_gradient_quality call
    qout,           \* the score that call returned
    hin,            \* argument of a direct hash_gradients call
    hout,           \* the digest that call returned
    wpc,            \* position of each /compute request in GradientComputer.compute_gradients
    win,            \* the task and the executor outcome of each /compute request
    wres            \* the ComputeResult each /compute request built

qvars == <<pending_tasks, active_task, pc, arg, ret, arm, submitted, last>>
cvars == <<prev_loss, current_task, computed, verified>>
svars == <<qin, qout>>
hvars == <<hin, hout>>
wvars == <<wpc, win, wres>>
vars == <<qvars, now, cvars, svars, hvars, wvars>>

(***************************************************************************)
(* Helpers on Python lists.                                                *)
(***************************************************************************)
\* number of elements of s with the given task_id
CountId(s, id) == Cardinality({i \in 1..Len(s) : s[i].task_id = id})

PendingIds(s) == {s[i].task_id : i \in 1..Len(s)}

\* `for task in pending: if task.task_id == task_id` : index of the first match, 0 if none
FirstMatch(s, id) ==
    IF \E i \in 1..Len(s) : s[i].task_id = id
    THEN CHOOSE i \in 1..Len(s) :
            /\ s[i].task_id = id
            /\ \A j \in 1..(i - 1) : s[j].task_id # id
    ELSE 0

\* list.remove(x) forgotten: the list stays as it is
ListRemoveNothing(s, x) == s

\* s.pop() in place of s.remove(x): drops the last element
ListRemoveLast(s, x) == SubSeq(s, 1, Len(s) - 1)

\* list.remove(x): drops the first element equal to x
ListRemove(s, x) ==
    LET k == CHOOSE i \in 1..Len(s) : s[i] = x /\ \A j \in 1..(i - 1) : s[j] # x
    IN  [i \in 1..(Len(s) - 1) |-> IF i < k THEN s[i] ELSE s[i + 1]]

NoCall == [op |-> "none", id |-> 0, task |-> NoTask, ok |-> FALSE, list |-> <<>>,
           pre_pending |-> <<>>, pre_active |-> NoTask, pre_submitted |-> {}, at |-> 0]

CallRecord(op, id, task, ok, list) ==
    [op |-> op, id |-> id, task |-> task, ok |-> ok, list |-> list,
     pre_pending |-> pending_tasks, pre_active |-> active_task,
     pre_submitted |-> submitted, at |-> now]

(***************************************************************************)
(* TaskQueue.                                                              *)
(***************************************************************************)
QueueInit ==
    /\ pending_tasks = <<>>
    /\ active_task = NoTask
    /\ pc = [c \in Callers |-> "idle"]
    /\ arg = [c \in Callers |-> 0]
    /\ ret = [c \in Callers |-> NoTask]
    /\ arm = [c \in Callers |-> FALSE]
    /\ submitted = {}
    /\ last = NoCall

\* the clock advances
Tick ==
    /\ now < MaxTime
    /\ now' = now + 1
    /\ UNCHANGED <<qvars, cvars, svars, hvars, wvars>>

\* TaskQueue.add_task: append, no check of any kind
add_task(t) ==
    /\ Len(pending_tasks) < MaxPending
    /\ pending_tasks' = Append(pending_tasks, t)
    /\ arm' = [c \in Callers |-> arm[c] /\ arg[c] # t.task_id]
    /\ last' = CallRecord("add", t.task_id, t, TRUE, <<>>)
    /\ UNCHANGED <<active_task, now, pc, arg, ret, submitted, cvars, svars, hvars, wvars>>

\* TaskQueue.fetch_tasks: returns the pending list as it is
fetch_tasks ==
    /\ last' = CallRecord("fetch", 0, NoTask, TRUE, pending_tasks)
    /\ UNCHANGED <<pending_tasks, active_task, now, pc, arg, ret, arm, submitted,
                   cvars, svars, hvars, wvars>>

\* server.claim_task: a claim request for task_id has arrived and waits for the event loop
Invoke(c, id) ==
    /\ pc[c] = "idle"
    /\ pc' = [pc EXCEPT ![c] = "claim"]
    /\ arg' = [arg EXCEPT ![c] = id]
    /\ ret' = [ret EXCEPT ![c] = NoTask]
    /\ arm' = [d \in Callers |->
                  IF d = c
                  THEN /\ CountId(pending_tasks, id) = 1
                       /\ \A e \in Callers \ {c} :
                             (arg[e] = id /\ (arm[e] \/ pc[e] = "claim"))
                                 => (arm[e] /\ pc[e] = "claim")
                  ELSE arm[d] /\ arg[d] # arg[c]]
    /\ UNCHANGED <<pending_tasks, active_task, now, submitted, last, cvars, svars, hvars, wvars>>

\* the loop falls back to the head of the list when no task_id matches
ClaimResultHead(s, id) ==
    IF FirstMatch(s, id) # 0 THEN s[FirstMatch(s, id)]
    ELSE IF s # <<>> THEN s[1] ELSE NoTask

\* the result of the loop of TaskQueue.claim_task
ClaimResult(s, id) == IF FirstMatch(s, id) = 0 THEN NoTask ELSE s[FirstMatch(s, id)]

\* TaskQueue.claim_task, run by the handler of caller c; it has no await inside,
\* so the event loop runs it as one step
claim_task(c) ==
    /\ pc[c] = "claim"
    /\ LET task == ClaimResult(pending_tasks, arg[c])
       IN  /\ IF task # NoTask
              THEN /\ active_task' = task
                   /\ pending_tasks' = ListRemove(pending_tasks, task)
              ELSE UNCHANGED <<active_task, pending_tasks>>
           /\ ret' = [ret EXCEPT ![c] = task]
           /\ last' = CallRecord("claim", arg[c], task, task # NoTask, <<>>)
    /\ pc' = [pc EXCEPT ![c] = "idle"]
    /\ UNCHANGED <<now, arg, arm, submitted, cvars, svars, hvars, wvars>>

\* TaskQueue.submit_result: clears active_task and returns True, whatever the result
submit_result(id) ==
    /\ active_task' = NoTask
    /\ submitted' = submitted \cup {id}
    /\ last' = CallRecord("submit", id, NoTask, TRUE, <<>>)
    /\ UNCHANGED <<pending_tasks, now, pc, arg, ret, arm, cvars, svars, hvars, wvars>>

\* TaskQueue has no release method: the call raises AttributeError and changes nothing
release(id) ==
    /\ last' = CallRecord("release", id, NoTask, FALSE, <<>>)
    /\ UNCHANGED <<pending_tasks, active_task, now, pc, arg, ret, arm, submitted,
                   cvars, svars, hvars, wvars>>


(***************************************************************************)
(* GradientComputer.                                                       *)
(***************************************************************************)
\* what the model executor hands back for a batch: the loss, the gradients of the
\* parameters and the statistic of the batch the metrics are computed from
ExecLosses == {Half, Fin(2, 1), NaN}
ExecElems == {One, NaN}
ExecGradients ==
    {g \in GradientMaps :
        /\ Len(g) <= 1
        /\ \A i \in 1..Len(g) :
              g[i].name = <<1>> /\ g[i].grad[1] \in ExecElems}
Outcomes == [loss : ExecLosses, gradients : ExecGradients]
BatchStat == Half

NoDigest == [pre |-> <<>>, flip |-> 0]
NoResult == [task_id |-> 0, gradient_hash |-> NoDigest, quality_score |-> None,
             loss |-> None, metrics |-> <<>>, proof |-> NoDigest]
NoOutcome == [loss |-> None, gradients |-> <<>>]
NoCompute == [status |-> "none", result |-> NoResult, criterion |-> "none",
              task |-> NoTask, out |-> NoOutcome, last_ok |-> None]
NoVerify == [called |-> FALSE, result |-> NoResult, task |-> NoTask,
             expected |-> NoDigest, ret |-> FALSE]

ComputerInit ==
    /\ prev_loss = None
    /\ current_task = NoTask
    /\ computed = NoCompute
    /\ verified = NoVerify

\* GradientComputer._generate_proof: the digest of the record, stamped with the clock
_generate_proof(task, gradient_hash, quality_score, metrics) ==
    sha256([task_id |-> task.task_id, gradient_hash |-> gradient_hash,
            quality_score |-> quality_score, metrics |-> metrics,
            timestamp |-> now])

\* the ComputeResult of a computer that scores every call as if it were its first
BuildResultFresh(task, out) ==
    LET quality_score == compute_gradient_quality(out.gradients, out.loss, None)
        gradient_hash == hash_gradients(out.gradients)
        metrics == _compute_metrics(BatchStat, task.model_id)
                       \o <<<<"loss", out.loss>>, <<"compute_time", Zero>>>>
    IN  [task_id |-> task.task_id,
         gradient_hash |-> gradient_hash,
         quality_score |-> quality_score,
         loss |-> out.loss,
         metrics |-> metrics,
         proof |-> _generate_proof(task, gradient_hash, quality_score, metrics)]

\* the ComputeResult that compute_gradients builds
BuildResult(task, out) ==
    LET quality_score == compute_gradient_quality(out.gradients, out.loss, prev_loss)
        gradient_hash == hash_gradients(out.gradients)
        metrics == _compute_metrics(BatchStat, task.model_id)
                       \o <<<<"loss", out.loss>>, <<"compute_time", Zero>>>>
    IN  [task_id |-> task.task_id,
         gradient_hash |-> gradient_hash,
         quality_score |-> quality_score,
         loss |-> out.loss,
         metrics |-> metrics,
         proof |-> _generate_proof(task, gradient_hash, quality_score, metrics)]

\* the record of a compute_gradients call: how it ended, what it returned, the criterion
\* it used, its task, what the executor gave it, and the loss of the latest call that
\* has returned a result
Raised(task) ==
    [status |-> "ValueError", result |-> NoResult, criterion |-> "none",
     task |-> task, out |-> NoOutcome, last_ok |-> computed.last_ok]
Returned(task, out) ==
    [status |-> "ok", result |-> BuildResult(task, out),
     criterion |-> _get_criterion(task.model_id),
     task |-> task, out |-> out, last_ok |-> out.loss]

\* compute_gradients with the state update moved in front of the model lookup
compute_gradients_eager(task, out) ==
    /\ prev_loss' = out.loss
    /\ current_task' = task
    /\ computed' = IF ~load_model(task.model_id) THEN Raised(task) ELSE Returned(task, out)
    /\ verified' = NoVerify
    /\ UNCHANGED <<qvars, now, svars, hvars, wvars>>

\* GradientComputer.compute_gradients; it has no await inside
compute_gradients(task, out) ==
    /\ IF ~load_model(task.model_id)
       THEN /\ computed' = Raised(task)
            /\ UNCHANGED <<prev_loss, current_task>>
       ELSE /\ computed' = Returned(task, out)
            /\ prev_loss' = out.loss
            /\ current_task' = task
    /\ verified' = NoVerify
    /\ UNCHANGED <<qvars, now, svars, hvars, wvars>>

\* the range check written as `score < 0 or score > 1`
VerifyReturnLoose(result, task) ==
    IF result.task_id # task.task_id THEN FALSE
    ELSE IF FLt(result.quality_score, Zero) \/ FLt(One, result.quality_score) THEN FALSE
    ELSE TRUE

\* the value GradientComputer.verify_result returns
VerifyReturn(result, task) ==
    IF result.task_id # task.task_id THEN FALSE
    ELSE IF ~(FLe(Zero, result.quality_score) /\ FLe(result.quality_score, One)) THEN FALSE
    ELSE TRUE

\* GradientComputer.verify_result
verify_result(result, task) ==
    /\ verified' = [called |-> TRUE, result |-> result, task |-> task,
                    expected |-> _generate_proof(task, result.gradient_hash,
                                                 result.quality_score, result.metrics),
                    ret |-> VerifyReturn(result, task)]
    /\ UNCHANGED <<qvars, now, prev_loss, current_task, computed, svars, hvars, wvars>>

\* the results a caller may hand to verify_result: the computed one, or that one with
\* a field altered
OtherScores == {Fin(-1, 2), Fin(3, 2), NaN, PInf}
Candidates(r) ==
    {r}
    \cup {[r EXCEPT !.task_id = id] : id \in TaskIds \ {r.task_id}}
    \cup {[r EXCEPT !.quality_score = q] : q \in OtherScores}
    \cup {[r EXCEPT !.proof = [@ EXCEPT !.flip = 1]]}

\* verify_result reads the task_id of the task only: one task per task_id is offered
VerifyTasks == {t \in ComputeTasks : load_model(t.model_id) /\ t.model_id <= 2}

ComputeNext ==
    \/ Tick
    \/ \E task \in ComputeTasks, out \in Outcomes : compute_gradients(task, out)
    \/ \E r \in Candidates(computed.result), task \in VerifyTasks :
          computed.status = "ok" /\ verify_result(r, task)

(***************************************************************************)
(* compute_gradient_quality called on its own, on every input.             *)
(***************************************************************************)
ScoreLosses == {Zero, One, Fin(3, 1), NaN, PInf, NInf}
PrevLosses == {None, Fin(-1, 1), Zero, One, NaN, PInf}
\* the score does not read the names: the i-th parameter of a scored map is named <<i>>
ScoreMaps == {g \in GradientMaps : \A i \in 1..Len(g) : g[i].name = <<i>>}
ScoreInputs == [gradients : ScoreMaps, loss : ScoreLosses, prev_loss : PrevLosses]
NoInput == [gradients |-> <<>>, loss |-> None, prev_loss |-> None]
ScoreTask == CHOOSE t \in ComputeTasks : t.task_id = 1 /\ t.model_id = 1

score_call ==
    /\ qin # NoInput
    /\ qout' = compute_gradient_quality(qin.gradients, qin.loss, qin.prev_loss)
    /\ UNCHANGED <<qvars, now, cvars, qin, hvars, wvars>>

\* the same gradients and loss coming out of the executor
compute_call ==
    /\ qin # NoInput
    /\ compute_gradients(ScoreTask, [loss |-> qin.loss, gradients |-> qin.gradients])

ScoreNext == score_call \/ compute_call

(***************************************************************************)
(***************************************************************************)
(* /compute requests in flight at once on the one GradientComputer.        *)
(***************************************************************************)
Workers == {1, 2}
NoWork == [task |-> NoTask, out |-> NoOutcome]
WorkersIdle ==
    /\ wpc = [c \in Workers |-> "idle"]
    /\ win = [c \in Workers |-> NoWork]
    /\ wres = [c \in Workers |-> NoResult]

\* a request arrives: the handler builds the task, loads the dataset and calls
\* computer.compute_gradients
Request(c, task, out) ==
    /\ wpc[c] = "idle"
    /\ wpc' = [wpc EXCEPT ![c] = "called"]
    /\ win' = [win EXCEPT ![c] = [task |-> task, out |-> out]]
    /\ UNCHANGED <<qvars, now, cvars, svars, hvars, wres>>

\* threads, where a request may run while another one is inside compute_gradients
RunnableAlways(c) == TRUE

\* the event loop runs a coroutine up to its next await, and compute_gradients has
\* none: no request runs while another one is inside compute_gradients
Runnable(c) == \A d \in Workers \ {c} : wpc[d] # "inside"

\* compute_gradients from the model lookup to the proof: prev_loss is read for the score
compute_begin(c) ==
    /\ wpc[c] = "called"
    /\ Runnable(c)
    /\ IF ~load_model(win[c].task.model_id)
       THEN /\ wpc' = [wpc EXCEPT ![c] = "done"]
            /\ UNCHANGED wres
       ELSE /\ wpc' = [wpc EXCEPT ![c] = "inside"]
            /\ wres' = [wres EXCEPT ![c] = BuildResult(win[c].task, win[c].out)]
    /\ UNCHANGED <<qvars, now, cvars, svars, hvars, win>>

\* compute_gradients from the state update to the return
compute_end(c) ==
    /\ wpc[c] = "inside"
    /\ prev_loss' = win[c].out.loss
    /\ current_task' = win[c].task
    /\ wpc' = [wpc EXCEPT ![c] = "done"]
    /\ UNCHANGED <<qvars, now, computed, verified, svars, hvars, win, wres>>

WorkersNext ==
    \/ \E c \in Workers, task \in ComputeTasks, out \in Outcomes : Request(c, task, out)
    \/ \E c \in Workers : compute_begin(c)
    \/ \E c \in Workers : compute_end(c)

(* hash_gradients called on its own.                                       *)
(***************************************************************************)
NoHash == [called |-> FALSE, digest |-> NoDigest]
HashIdle == hin = <<>> /\ hout = NoHash

hash_call ==
    /\ hout' = [called |-> TRUE, digest |-> hash_gradients(hin)]
    /\ UNCHANGED <<qvars, now, cvars, svars, hin, wvars>>

HashNext == hash_call

Init ==
    /\ QueueInit
    /\ now = 0
    /\ ComputerInit
    /\ qin = NoInput
    /\ qout = None
    /\ HashIdle
    /\ WorkersIdle

HashInit ==
    /\ QueueInit
    /\ now = 0
    /\ ComputerInit
    /\ qin = NoInput
    /\ qout = None
    /\ hin \in HashMaps
    /\ hout = NoHash
    /\ WorkersIdle

ScoreInit ==
    /\ QueueInit
    /\ now = 0
    /\ ComputerInit
    /\ qin \in ScoreInputs
    /\ qout = None
    /\ HashIdle
    /\ WorkersIdle

SpecCompute == Init /\ [][ComputeNext]_vars
SpecScore == ScoreInit /\ [][ScoreNext]_vars
SpecHash == HashInit /\ [][HashNext]_vars
SpecWorkers == Init /\ [][WorkersNext]_vars

\* one client at a time calls the queue
QueueNext ==
    \/ Tick
    \/ \E t \in QueueTasks : add_task(t)
    \/ fetch_tasks
    \/ \E id \in TaskIds : Invoke(1, id)
    \/ claim_task(1)
    \/ \E id \in TaskIds : submit_result(id)
    \/ \E id \in TaskIds : release(id)

SpecQueue == Init /\ [][QueueNext]_vars

\* several claim requests in flight at once
RaceNext ==
    \/ \E t \in RaceTasks : add_task(t)
    \/ \E c \in Callers, id \in TaskIds : Invoke(c, id)
    \/ \E c \in Callers : claim_task(c)

SpecRace == Init /\ [][RaceNext]_vars

(***************************************************************************)
(* Properties of TaskQueue.                                                *)
(***************************************************************************)
\* the claim requests that raced for task_id id while it was pending exactly once
Racers(id) == {c \in Callers : arm[c] /\ arg[c] = id}
RaceOver(id) == Cardinality(Racers(id)) >= 2 /\ \A c \in Racers(id) : pc[c] = "idle"

\* C1: when two or more claim requests race for a task_id that is pending exactly
\* once, exactly one of them gets the task and every other one gets None
ClaimExclusivity ==
    \A id \in TaskIds :
        RaceOver(id) =>
            /\ Cardinality({c \in Racers(id) : ret[c] # NoTask}) = 1
            /\ \A c \in Racers(id) : ret[c] # NoTask => ret[c].task_id = id

\* a race of two requests is over: one holds the task, the other holds None
ClaimExclusivityWitness ==
    \E id \in TaskIds :
        /\ RaceOver(id)
        /\ \E c, d \in Racers(id) : ret[c].task_id = id /\ ret[d] = NoTask

\* s without its k-th element
DropAt(s, k) == [i \in 1..(Len(s) - 1) |-> IF i < k THEN s[i] ELSE s[i + 1]]

\* C2: a successful claim_task(task_id) returns the pending task with that id, makes it
\* the active task and takes it, and nothing else, out of the pending list; a task_id
\* that was pending once is then not pending, and it becomes pending again only by
\* add_task, so fetch_tasks (which returns the pending list) does not show it
ClaimTakesTask ==
    [][ /\ (last'.op = "claim" /\ last'.ok) =>
              /\ last'.task.task_id = last'.id
              /\ active_task' = last'.task
              /\ \E k \in 1..Len(last'.pre_pending) :
                    /\ last'.pre_pending[k] = last'.task
                    /\ pending_tasks' = DropAt(last'.pre_pending, k)
              /\ CountId(last'.pre_pending, last'.id) = 1
                    => last'.id \notin PendingIds(pending_tasks')
        /\ last'.op = "fetch" => last'.list = pending_tasks'
        /\ \A id \in TaskIds :
              (id \notin PendingIds(pending_tasks) /\ id \in PendingIds(pending_tasks'))
                  => (last'.op = "add" /\ last'.id = id)
      ]_vars

\* a claim took one of two pending tasks and left the other one pending
ClaimTakesTaskWitness ==
    /\ last.op = "claim"
    /\ last.ok
    /\ Len(last.pre_pending) = 2
    /\ Len(pending_tasks) = 1
    /\ active_task.task_id = last.id
    /\ last.id \notin PendingIds(pending_tasks)

\* C3: claim_task(task_id) returns None when no pending task has that id (unknown or
\* already claimed), and then the pending list and the active task are as before
ClaimNotFound ==
    (last.op = "claim" /\ last.id \notin PendingIds(last.pre_pending)) =>
        /\ last.task = NoTask
        /\ ~last.ok
        /\ pending_tasks = last.pre_pending
        /\ active_task = last.pre_active

\* a second claim of the task that is already the active one returned None, with
\* another task still pending
ClaimNotFoundWitness ==
    /\ last.op = "claim"
    /\ ~last.ok
    /\ last.pre_active.task_id = last.id
    /\ pending_tasks # <<>>
    /\ active_task = last.pre_active

\* C4: submit_result succeeds if and only if the task of the result is the claimed
\* one; a failed submit changes nothing, a successful one ends the claim
SubmitOnlyClaimed ==
    last.op = "submit" =>
        /\ last.ok <=> (last.pre_active # NoTask /\ last.pre_active.task_id = last.id)
        /\ ~last.ok => (active_task = last.pre_active /\ pending_tasks = last.pre_pending)
        /\ last.ok => active_task = NoTask

\* C5: once submit_result has succeeded for a task_id, a later submit_result for the
\* same task_id fails
SubmitTwiceFails ==
    (last.op = "submit" /\ last.id \in last.pre_submitted) => ~last.ok

\* C6: fetch_tasks returns no task whose deadline lies before the time of the call, and
\* claim_task does not return such a task
ExpiredInvisible ==
    /\ last.op = "fetch" => \A i \in 1..Len(last.list) : last.list[i].deadline >= last.at
    /\ (last.op = "claim" /\ last.ok) => last.task.deadline >= last.at

\* C7: after release(task_id) of the claimed task the task is no longer the active one;
\* it is pending again if its deadline has not passed and gone otherwise
ReleaseReturns ==
    (last.op = "release" /\ last.pre_active # NoTask /\ last.pre_active.task_id = last.id) =>
        /\ active_task # last.pre_active
        /\ IF last.pre_active.deadline >= last.at
           THEN pending_tasks = Append(last.pre_pending, last.pre_active)
           ELSE pending_tasks = last.pre_pending

(***************************************************************************)
(* Properties of GradientComputer.verify_result.                           *)
(***************************************************************************)
InUnit(x) == FLe(Zero, x) /\ FLe(x, One)

\* C8: verify_result returns false when the task_id of the result is not the task's,
\* and when the quality_score is not within [0, 1], whatever the other fields are
VerifyRejects ==
    verified.called =>
        /\ verified.result.task_id # verified.task.task_id => ~verified.ret
        /\ ~InUnit(verified.result.quality_score) => ~verified.ret

\* verify_result refused a result of the right task with a genuine proof because its
\* score is nan
VerifyRejectsWitness ==
    /\ verified.called
    /\ ~verified.ret
    /\ verified.result.task_id = verified.task.task_id
    /\ verified.result.quality_score = NaN
    /\ verified.result.proof.flip = 0

\* C9: verify_result returns false when the proof of the result differs from the proof
\* regenerated from the task and the result's fields
VerifyComparesProof ==
    (verified.called /\ verified.result.proof # verified.expected) => ~verified.ret

(***************************************************************************)
(* Properties of compute_gradient_quality.                                 *)
(***************************************************************************)
\* C10: the score compute_gradient_quality returns, and the quality_score of the
\* ComputeResult of compute_gradients, lie within [0, 1]
ScoreInUnit ==
    /\ qout # None => InUnit(qout)
    /\ computed.status = "ok" => InUnit(computed.result.quality_score)

\* scores were returned for gradients whose norm is nan, with a nan loss and a
\* positive previous loss
ScoreInUnitWitness ==
    /\ qout # None
    /\ computed.status = "ok"
    /\ qin.loss = NaN
    /\ qin.prev_loss = One
    /\ \E i \in 1..Len(qin.gradients) : qin.gradients[i].grad[1] = NaN
    /\ prev_loss = NaN

\* Python's == on floats
FEq(a, b) == a.k # "nan" /\ b.k # "nan" /\ a = b

\* the total norm of the gradients of the direct call, and the improvement sub-score
\* that went into the score it returned
TotalNorm(g) == FSqrt(TotalNormSq(g))
ImprovementOf == FSub(FMul(Fin(2, 1), qout), MagnitudeScore(TotalNorm(qin.gradients)))

\* C11: when prev_loss is given and positive, the improvement sub-score
\* min(1, max(0, (prev_loss - loss) / prev_loss + 0.5)) is 0.5 exactly when
\* loss == prev_loss
ImprovementHalfIffEqual ==
    (qout # None /\ qin.prev_loss # None /\ FLt(Zero, qin.prev_loss)) =>
        (ImprovementOf = Half <=> FEq(qin.loss, qin.prev_loss))

\* the gradient map of one parameter whose norm is 1.0
IdealMaps == {<<[name |-> <<1>>, grad |-> <<One>>]>>}

\* C12: with the same loss and prev_loss, gradients of total norm below 0.1 score
\* strictly lower than gradients of norm 1.0; the magnitude sub-score is
\* total_norm / 0.1 below 0.1, 1.0 within [0.1, 10] and
\* max(0, 1 - (total_norm - 10) / 100) above 10
SmallNormScoresLower ==
    qout # None =>
        LET tn == TotalNorm(qin.gradients)
        IN  /\ FLt(tn, Fin(1, 10)) =>
                  \A g \in IdealMaps :
                      FLt(qout, compute_gradient_quality(g, qin.loss, qin.prev_loss))
            /\ qin.prev_loss = None =>
                  /\ FLt(tn, Fin(1, 10)) => qout = FMul(tn, Fin(10, 1))
                  /\ (FLe(Fin(1, 10), tn) /\ FLe(tn, Fin(10, 1))) => qout = One
                  /\ FLt(Fin(10, 1), tn) =>
                        qout = (IF FLe(tn, Fin(110, 1))
                                THEN FDiv(FSub(Fin(110, 1), tn), Fin(100, 1))
                                ELSE Zero)

\* gradients of norm 1/16 were scored with loss and prev_loss equal, and scored
\* below 1, the score of gradients of norm 1.0 with that loss and prev_loss
SmallNormScoresLowerWitness ==
    /\ qout # None
    /\ qin.loss = One
    /\ qin.prev_loss = One
    /\ TotalNorm(qin.gradients) = Fin(1, 16)
    /\ FLt(qout, One)
    /\ \A g \in IdealMaps : compute_gradient_quality(g, One, One) = Fin(3, 4)

(***************************************************************************)
(* Properties of hash_gradients.                                           *)
(***************************************************************************)
\* a gradient map as a mapping, whatever its insertion order; the byte stream it feeds
\* to the hasher
Entries(g) == {g[i] : i \in 1..Len(g)}
Layout(g) == {<<g[i].name, g[i].shape>> : i \in 1..Len(g)}
Stream(g) == HashInput(g, SortNames(Keys(g)))

\* C13: hash_gradients returns the same digest for the same parameters and tensors,
\* in whatever order the map iterates over them
HashOrderIndependent ==
    hout.called =>
        \A g \in HashMaps : Entries(g) = Entries(hin) => hash_gradients(g) = hout.digest

\* a map of two parameters was hashed, and the map with the two inserted the other way
\* round has that digest
HashOrderIndependentWitness ==
    /\ hout.called
    /\ Len(hin) = 2
    /\ LexLt(hin[2].name, hin[1].name)
    /\ hash_gradients(<<hin[2], hin[1]>>) = hout.digest
    /\ hout.digest.pre = hin[2].name \o TensorBytes(hin[2].grad)
                             \o hin[1].name \o TensorBytes(hin[1].grad)

\* C20: two gradient maps that differ in a name, in the shape of a tensor or in an
\* element feed different byte streams to the hasher
StreamInjective ==
    hout.called =>
        \A g \in HashMaps : Entries(g) # Entries(hin) => Stream(g) # hout.digest.pre

\* C20, amended: two gradient maps with the same names and the same tensor shapes that
\* differ in an element feed different byte streams to the hasher
StreamInjectiveOnElements ==
    hout.called =>
        \A g \in HashMaps :
            (Layout(g) = Layout(hin) /\ Entries(g) # Entries(hin)) =>
                Stream(g) # hout.digest.pre

\* a map of two parameters with a two-element tensor was hashed; the map that differs
\* from it in the last element of that tensor alone has another byte stream
StreamInjectiveOnElementsWitness ==
    /\ hout.called
    /\ Len(hin) = 2
    /\ Len(hin[1].grad) = 2
    /\ \E g \in HashMaps :
          /\ Len(g) = 2
          /\ g[2] = hin[2]
          /\ g[1].name = hin[1].name /\ g[1].shape = hin[1].shape
          /\ g[1].grad[1] = hin[1].grad[1] /\ g[1].grad[2] # hin[1].grad[2]
          /\ Stream(g) # hout.digest.pre

(***************************************************************************)
(* Properties of GradientComputer.                                         *)
(***************************************************************************)
\* a call of compute_gradients that runs alone with previous loss p: the prev_loss it
\* leaves and the score it returns
AfterCall(p, w) == IF load_model(w.task.model_id) THEN w.out.loss ELSE p
ScoreOfCall(p, w) ==
    IF load_model(w.task.model_id)
    THEN compute_gradient_quality(w.out.gradients, w.out.loss, p)
    ELSE None

\* call a and then call b, one after the other on a fresh computer
SequentialRun(a, b) ==
    [first |-> ScoreOfCall(None, a),
     second |-> ScoreOfCall(AfterCall(None, a), b),
     final |-> AfterCall(AfterCall(None, a), b)]

\* C17: two compute_gradients calls in flight at once on one GradientComputer end with
\* the scores and the prev_loss of one of the two sequential orders of the calls
ComputeSerialized ==
    (\A c \in Workers : wpc[c] = "done") =>
        LET ab == SequentialRun(win[1], win[2])
            ba == SequentialRun(win[2], win[1])
        IN  \/ /\ wres[1].quality_score = ab.first
               /\ wres[2].quality_score = ab.second
               /\ prev_loss = ab.final
            \/ /\ wres[2].quality_score = ba.first
               /\ wres[1].quality_score = ba.second
               /\ prev_loss = ba.final

\* two requests were in flight together and both returned a result; the second one was
\* scored against the loss of the first, which differs from its score on a fresh computer
ComputeSerializedWitness ==
    /\ \A c \in Workers : wpc[c] = "done" /\ wres[c] # NoResult
    /\ wres[1].quality_score = ScoreOfCall(None, win[1])
    /\ wres[2].quality_score = ScoreOfCall(win[1].out.loss, win[2])
    /\ wres[2].quality_score # ScoreOfCall(None, win[2])
    /\ prev_loss = win[2].out.loss

\* a step of compute_gradients (of the steps of the computer, it is the one that
\* neither moves the clock nor records a verify_result call); computed' is its record
ComputeStep == now' = now /\ ~verified'.called

\* C14: compute_gradients for a task whose model_id the registry does not resolve fails
\* with the model-not-found error, returns no ComputeResult and leaves prev_loss and
\* current_task as they were
ModelNotFoundKeepsState ==
    [][(ComputeStep /\ ~load_model(computed'.task.model_id)) =>
          /\ computed'.status = "ValueError"
          /\ computed'.result = NoResult
          /\ prev_loss' = prev_loss
          /\ current_task' = current_task]_vars

\* a call for an unregistered model has failed on a computer that had computed before:
\* the loss and the task of the earlier call are still there
ModelNotFoundKeepsStateWitness ==
    /\ computed.status = "ValueError"
    /\ ~load_model(computed.task.model_id)
    /\ prev_loss = Half
    /\ prev_loss = computed.last_ok
    /\ current_task # NoTask
    /\ current_task # computed.task

IsFinite(x) == x.k = "fin"

\* C15: a non-finite loss or gradient is surfaced as a failure: compute_gradients never
\* returns a ComputeResult for it and never stores a non-finite loss as prev_loss
NonFiniteRejected ==
    /\ computed.status = "ok" =>
          /\ IsFinite(computed.out.loss)
          /\ \A i \in 1..Len(computed.out.gradients) :
                IsFinite(computed.out.gradients[i].grad[1])
    /\ prev_loss # None => IsFinite(prev_loss)

\* C16: a compute_gradients call that returns a result leaves its loss in prev_loss,
\* whatever its task; its score is computed with the loss of the latest earlier call
\* that returned a result as prev_loss, and with the magnitude sub-score alone when
\* there is no such call
LossThreaded ==
    [][(ComputeStep /\ computed'.status = "ok") =>
          /\ prev_loss' = computed'.out.loss
          /\ computed'.result.quality_score =
                compute_gradient_quality(computed'.out.gradients, computed'.out.loss,
                                         computed.last_ok)
          /\ computed.last_ok = None =>
                computed'.result.quality_score =
                    MagnitudeScore(TotalNorm(computed'.out.gradients))]_vars

\* a call with loss 1/2 and gradients of norm 1 came after a call with loss 1/2: its
\* score 3/4 is the mean of the magnitude sub-score 1 and the improvement sub-score 1/2
LossThreadedWitness ==
    /\ computed.status = "ok"
    /\ computed.out.loss = Half
    /\ prev_loss = Half
    /\ TotalNorm(computed.out.gradients) = One
    /\ computed.result.quality_score = Fin(3, 4)

MetricKeys(result) == {result.metrics[i][1] : i \in 1..Len(result.metrics)}

\* C18: the metrics of a ComputeResult contain loss and compute_time, and the domain
\* keys that go with the criterion of the call: accuracy with the classification
\* criterion, which is also the one of a model of unknown task type or without config,
\* mse and mae with the regression criterion
MetricsMatchCriterion ==
    computed.status = "ok" =>
        /\ {"loss", "compute_time"} \subseteq MetricKeys(computed.result)
        /\ computed.criterion = "CrossEntropyLoss" =>
              MetricKeys(computed.result) = {"accuracy", "loss", "compute_time"}
        /\ computed.criterion = "MSELoss" =>
              MetricKeys(computed.result) = {"mse", "mae", "loss", "compute_time"}

\* C19: every task added to a queue of unique task_ids is pending, claimed or submitted
\* at any time: when claim_task hands out a task while another task is claimed and not
\* submitted, that other task is still the claimed one (or pending) afterwards
TaskConservation ==
    (/\ last.op = "claim" /\ last.ok
     /\ last.pre_active # NoTask
     /\ last.pre_active.task_id # last.id
     /\ last.pre_active.task_id \notin last.pre_submitted
     /\ CountId(last.pre_pending, last.pre_active.task_id) = 0) =>
        \/ active_task = last.pre_active
        \/ CountId(pending_tasks, last.pre_active.task_id) = 1
====
